---- MODULE Spec2Model ----
(***************************************************************************)
(* Adaptive Scenario & Scoring Engine of data-qa-assistant.                *)
(*                                                                         *)
(* The model follows src/utils/training_engine.py (TrainingEngine) and     *)
(* src/utils/database.py (the training_sessions table).  Python values are *)
(* tagged records, Python dicts are functions from a set of keys, Python   *)
(* exceptions are the "raised" field of a call's outcome.                  *)
(***************************************************************************)
EXTENDS Integers, Sequences, FiniteSets, TLC

VARIABLES
    training_sessions,  \* rows of the training_sessions table, in store order
    adaptive,           \* the last get_adaptive_difficulty call and its outcome
    judge,              \* what the text-completion service does on the next call
    evaluated,          \* the last evaluate_response call and its outcome
    personas,           \* TrainingEngine.personas, loaded at construction
    generator,          \* what the completion service does on a generation call
    generated,          \* the last generate_scenario call and its outcome
    created_ids,        \* the id of every scenario generate_scenario returned
    heap,               \* the scenario dicts of the catalog, by reference
    scenarios_db,       \* ScenarioGenerator.scenarios_db, lists of references
    lookup,             \* the last get_scenario call and its outcome
    saved,              \* the last save_training_session call and its outcome
    performance,        \* the last get_user_performance call and its outcome
    current_level,      \* the difficulty the caller holds for the trainee
    users,              \* rows of the users table, in store order
    registering         \* each session's register_user call: where it stands

vars == <<training_sessions, adaptive, judge, evaluated, personas, generator,
          generated, created_ids, heap, scenarios_db, lookup, saved, performance,
          current_level, users, registering>>

\* the state of scenario generation
synth_vars == <<personas, generator, generated, created_ids>>
\* the state of the training engine apart from the table
engine_vars == <<adaptive, judge, evaluated, synth_vars>>
\* the state of the scenario catalog
catalog_vars == <<heap, scenarios_db, lookup>>
\* the state of the performance summary
perf_vars == <<saved, performance>>
\* the state of registration
auth_vars == <<users, registering>>

(***************************************************************************)
(* Bounds of the model.                                                    *)
(***************************************************************************)
\* rows the training_sessions table may hold
MaxRows == 6
\* scenarios generate_scenario may return in one run
MaxScenarios == 2
\* dicts add_custom_scenario may append to the catalog
MaxCustom == 1
\* rows save_training_session may insert
MaxSessions == 8
\* rows of a history whose score dicts lack keys
MaxSparse == 3
\* rows of a history every operation works on
MaxHistory == 2
\* rows of a table two trainees store in
MaxShared == 3
MaxLadder == 4
MaxDegraded == 2
MaxUsers == 2
\* how far outside 1..5 a judged score may lie
OutOfRange == 1

(***************************************************************************)
(* Python / JSON values.                                                   *)
(***************************************************************************)
Num(n) == [type |-> "int", num |-> n, text |-> ""]
Str(s) == [type |-> "str", num |-> 0, text |-> s]
\* a JSON array of strings, kept by its rendering
List(s) == [type |-> "list", num |-> 0, text |-> s]
\* marks a key the dict does not hold; never a value inside a dict
Absent == [type |-> "absent", num |-> 0, text |-> ""]

IsNumber(v) == v.type = "int"

\* the dict holding exactly the keys of choice whose value is not Absent
Dict(choice) ==
    [k \in {k \in DOMAIN choice : choice[k] # Absent} |-> choice[k]]

EmptyDict == Dict([k \in {"accuracy"} |-> Absent])

Dimensions == {"accuracy", "application", "communication", "adaptability"}

EvaluationKeys == Dimensions \cup {"feedback", "suggestions"}

\* the four dimension scores alone
Scores(a, b, c, d) ==
    [k \in Dimensions |->
        CASE k = "accuracy" -> Num(a)
          [] k = "application" -> Num(b)
          [] k = "communication" -> Num(c)
          [] k = "adaptability" -> Num(d)]

(***************************************************************************)
(* evaluate_response: the fallback evaluation of the except branch.        *)
(***************************************************************************)
NeutralScore == 3

FallbackEvaluation(e) ==
    [k \in EvaluationKeys |->
        CASE k \in Dimensions -> Num(NeutralScore)
          [] k = "feedback" -> Str("Error in evaluation: " \o e)
          [] k = "suggestions" ->
                List("Please try again, Technical error occurred")]

(***************************************************************************)
(* The training_sessions table (Supabase).                                 *)
(***************************************************************************)
Row(user_id, scores) == [user_id |-> user_id, scores |-> scores]

AllRows(table, user_id) == table

\* .select('scores').eq('user_id', user_id): the trainee's rows, store order
UserRows(table, user_id) == SelectSeq(table, LAMBDA r : r.user_id = user_id)

WindowSize == 5

Min(a, b) == IF a <= b THEN a ELSE b
Max(a, b) == IF a >= b THEN a ELSE b

\* .limit(5): the first WindowSize rows of the result.  The query states no
\* order, so the rows come in store order, which for this table (rows are
\* only ever inserted) is the order of insertion
Limit(rows) == SubSeq(rows, 1, Min(Len(rows), WindowSize))

(***************************************************************************)
(* Outcomes of a call: a returned value or a raised exception.             *)
(***************************************************************************)
Return(v) == [raised |-> "none", value |-> v]
Raise(e) == [raised |-> e, value |-> ""]

(***************************************************************************)
(* get_adaptive_difficulty.  Python computes the averages in binary        *)
(* floating point; here they are exact fractions num/den.  Every per-row   *)
(* mean is kept as a multiple of 1/Scale, which is exact for dicts of 1 to *)
(* 6 values.                                                               *)
(***************************************************************************)
Scale == 3 * 4 * 5

Fraction(n, d) == [num |-> n, den |-> d]
GreaterEq(p, q) == p.num * q.den >= q.num * p.den
Less(p, q) == p.num * q.den < q.num * p.den

\* the literals 4.5 and 3.0 of the adaptive logic
AdvanceThreshold == Fraction(9, 2)
RegressThreshold == Fraction(3, 1)

difficulty_levels == <<"Easy", "Medium", "Hard", "Expert">>

\* list.index: the 0-based position of x in s, or -1 where Python raises
\* ValueError
Index(s, x) ==
    IF \E i \in 1..Len(s) : s[i] = x
    THEN (CHOOSE i \in 1..Len(s) : s[i] = x /\ \A j \in 1..(i - 1) : s[j] # x) - 1
    ELSE -1

\* s[i] for a 0-based i in range
At(s, i) == s[i + 1]

\* bool(session['scores']) for a dict
Truthy(d) == DOMAIN d # {}

RECURSIVE SumNumbers(_, _)
SumNumbers(d, keys) ==
    IF keys = {} THEN 0
    ELSE LET k == CHOOSE k \in keys : TRUE
         IN d[k].num + SumNumbers(d, keys \ {k})

\* sum(d.values()) raises TypeError unless every value is a number
Summable(d) == \A k \in DOMAIN d : IsNumber(d[k])

\* sum(session['scores'].values()) / len(session['scores']), times Scale
avg_score(d) == SumNumbers(d, DOMAIN d) * (Scale \div Cardinality(DOMAIN d))

\* the scores column holds a text (the JSON text save_training_session of
\* main.py stores), not a dict; no dict of scores has a key "type"
IsText(column) == "type" \in DOMAIN column

\* if session['scores']
TruthyColumn(column) ==
    IF IsText(column) THEN column.text # "" ELSE Truthy(column)

\* the rows the loop appends a mean for
Scored(history_data) == SelectSeq(history_data, LAMBDA r : TruthyColumn(r.scores))

\* line 157 raises on the row: a text has no values(), AttributeError; a
\* value that is not a number stops sum(), TypeError
Offending(r) == IsText(r.scores) \/ ~Summable(r.scores)

\* the exception of the first row line 157 raises on
FirstError(rows) ==
    LET first == CHOOSE i \in 1..Len(rows) :
                    /\ Offending(rows[i])
                    /\ \A j \in 1..(i - 1) : ~Offending(rows[j])
    IN IF IsText(rows[first].scores) THEN "AttributeError" ELSE "TypeError"

RECURSIVE SumScores(_)
SumScores(rows) ==
    IF rows = <<>> THEN 0 ELSE avg_score(Head(rows).scores) + SumScores(Tail(rows))

\* sum(total_scores) / len(total_scores), for a non-empty total_scores
avg_performance(history_data) ==
    Fraction(SumScores(Scored(history_data)), Scale * Len(Scored(history_data)))

StepUpSkip(current_difficulty) ==
    LET current_index == Index(difficulty_levels, current_difficulty)
    IN IF current_index < 0 THEN Raise("ValueError")
       ELSE Return(At(difficulty_levels, Min(current_index + 2, 3)))

\* lines 165-167: one level up the ladder
StepUp(current_difficulty) ==
    LET current_index == Index(difficulty_levels, current_difficulty)
    IN IF current_index < 0 THEN Raise("ValueError")
       ELSE Return(At(difficulty_levels, Min(current_index + 1, 3)))

StepDownToEasy(current_difficulty) ==
    LET current_index == Index(difficulty_levels, current_difficulty)
    IN IF current_index < 0 THEN Raise("ValueError")
       ELSE Return(At(difficulty_levels, 0))

\* lines 169-171: one level down the ladder
StepDown(current_difficulty) ==
    LET current_index == Index(difficulty_levels, current_difficulty)
    IN IF current_index < 0 THEN Raise("ValueError")
       ELSE Return(At(difficulty_levels, Max(current_index - 1, 0)))

ShouldRegressInclusive(avg, current_difficulty) ==
    ~Less(RegressThreshold, avg) /\ current_difficulty # "Easy"

\* line 168
ShouldRegress(avg, current_difficulty) ==
    Less(avg, RegressThreshold) /\ current_difficulty # "Easy"

\* line 164
ShouldAdvance(avg, current_difficulty) ==
    GreaterEq(avg, AdvanceThreshold) /\ current_difficulty # "Expert"

\* the ladder walked without its end checks: past Expert the list index is
\* out of range, below Easy the index -1 is Python's last element
AdaptiveLogicUnclamped(avg, current_difficulty) ==
    LET current_index == Index(difficulty_levels, current_difficulty)
    IN IF GreaterEq(avg, AdvanceThreshold)
       THEN IF current_index < 0 THEN Raise("ValueError")
            ELSE IF current_index + 1 > 3 THEN Raise("IndexError")
            ELSE Return(At(difficulty_levels, current_index + 1))
       ELSE IF Less(avg, RegressThreshold)
       THEN IF current_index < 0 THEN Raise("ValueError")
            ELSE Return(At(difficulty_levels, (current_index - 1) % 4))
       ELSE Return(current_difficulty)

AdaptiveLogicJumping(avg, current_difficulty) ==
    IF ShouldAdvance(avg, current_difficulty) THEN StepUpSkip(current_difficulty)
    ELSE IF ShouldRegress(avg, current_difficulty) THEN StepDownToEasy(current_difficulty)
    ELSE Return(current_difficulty)

\* lines 164-173
AdaptiveLogic(avg, current_difficulty) ==
    IF ShouldAdvance(avg, current_difficulty) THEN StepUp(current_difficulty)
    ELSE IF ShouldRegress(avg, current_difficulty) THEN StepDown(current_difficulty)
    ELSE Return(current_difficulty)

\* lines 153-173: the history is not empty
ScoreHistory(history_data, current_difficulty) ==
    IF \E i \in 1..Len(Scored(history_data)) : Offending(Scored(history_data)[i])
    THEN Raise(FirstError(Scored(history_data)))
    ELSE IF Scored(history_data) # <<>>
    THEN AdaptiveLogic(avg_performance(history_data), current_difficulty)
    ELSE Return(current_difficulty)

get_adaptive_difficulty_restart(history_data, current_difficulty) ==
    IF history_data = <<>> THEN Return(At(difficulty_levels, 0))
    ELSE ScoreHistory(history_data, current_difficulty)

\* lines 150-173: the decision on the rows the query returned
get_adaptive_difficulty(history_data, current_difficulty) ==
    IF history_data = <<>> THEN Return(current_difficulty)
    ELSE ScoreHistory(history_data, current_difficulty)

(***************************************************************************)
(* evaluate_response.  The completion service either raises or answers     *)
(* with a text; json.loads either raises on the text or yields the JSON    *)
(* object the text spells.  A text is kept by whether it parses and by the *)
(* object it spells.                                                       *)
(***************************************************************************)
ServiceRaises(e) == [kind |-> "raises", error |-> e, object |-> EmptyDict]
ServiceAnswers(wellformed, object) ==
    [kind |-> IF wellformed THEN "json" ELSE "text",
     error |-> "Expecting value: line 1 column 1 (char 0)",
     object |-> object]

\* json.loads(response.choices[0].message.content)
json_loads(content) ==
    IF content.kind = "json" THEN Return(content.object) ELSE Raise(content.error)

\* the prompt of lines 83-101 reads these keys of the scenario, before the try
PromptKeys == {"description", "customer_dialogue"}

Outcome(service_called, out) ==
    [service_called |-> service_called, raised |-> out.raised, value |-> out.value]

evaluate_response_propagating(scenario, service) ==
    IF ~(PromptKeys \subseteq DOMAIN scenario)
    THEN Outcome(FALSE, [raised |-> "KeyError", value |-> EmptyDict])
    ELSE IF service.kind = "raises"
    THEN Outcome(TRUE, [raised |-> "APIError", value |-> EmptyDict])
    ELSE LET evaluation == json_loads(service)
         IN IF evaluation.raised = "none" THEN Outcome(TRUE, evaluation)
            ELSE Outcome(TRUE, Return(FallbackEvaluation(evaluation.raised)))

\* lines 81-126.  _save_training_result (lines 128-143) builds a dict inside
\* its own try and stores nothing: the insert is commented out
evaluate_response(scenario, service) ==
    IF ~(PromptKeys \subseteq DOMAIN scenario)
    THEN Outcome(FALSE, [raised |-> "KeyError", value |-> EmptyDict])
    ELSE IF service.kind = "raises"
    THEN Outcome(TRUE, Return(FallbackEvaluation(service.error)))
    ELSE LET evaluation == json_loads(service)
         IN IF evaluation.raised = "none" THEN Outcome(TRUE, evaluation)
            ELSE Outcome(TRUE, Return(FallbackEvaluation(evaluation.raised)))

(***************************************************************************)
(* generate_scenario.                                                      *)
(***************************************************************************)
\* generate_scenario line 34: what it returns for an unknown persona
PersonaNotFound == [k \in {"error"} |-> Str("Persona not found")]

\* next((p for p in self.personas if p['name'] == persona_name), None):
\* the first persona of that name, or <<>> for None
FindPersona(loaded, persona_name) ==
    LET found == SelectSeq(loaded, LAMBDA p : p.name = persona_name)
    IN IF found = <<>> THEN <<>> ELSE <<Head(found)>>

ScenarioFields == {"description", "customer_dialogue", "challenge", "learning_outcome"}

\* lines 72-79: the scenario of the except branch; it has no id
DegradedScenario(e, persona_name, difficulty) ==
    [k \in ScenarioFields \cup {"persona", "difficulty"} |->
        CASE k = "description" -> Str("Error generating scenario: " \o e)
          [] k = "customer_dialogue" -> Str("Technical error occurred")
          [] k = "challenge" -> Str("System error")
          [] k = "learning_outcome" -> Str("Retry scenario generation")
          [] k = "persona" -> Str(persona_name)
          [] k = "difficulty" -> Str(difficulty)]

\* lines 63-67: scenario_data.update({...}) adds or overwrites three keys
Update(scenario_data, persona_name, difficulty, id) ==
    [k \in DOMAIN scenario_data \cup {"persona", "difficulty", "id"} |->
        CASE k = "persona" -> Str(persona_name)
          [] k = "difficulty" -> Str(difficulty)
          [] k = "id" -> Num(id)
          [] OTHER -> scenario_data[k]]

generate_scenario_raising(loaded, persona_name, difficulty, service, draw) ==
    IF FindPersona(loaded, persona_name) = <<>>
    THEN Outcome(FALSE, [raised |-> "PersonaNotFoundError", value |-> EmptyDict])
    ELSE IF service.kind = "raises"
    THEN Outcome(TRUE, [raised |-> "APIError", value |-> EmptyDict])
    ELSE LET scenario_data == json_loads(service)
         IN IF scenario_data.raised = "none"
            THEN Outcome(TRUE, Return(Update(scenario_data.value, persona_name,
                                             difficulty, draw)))
            ELSE Outcome(TRUE, [raised |-> "JSONDecodeError", value |-> EmptyDict])

generate_scenario_unchecked(loaded, persona_name, difficulty, service, draw) ==
    IF FindPersona(loaded, persona_name) = <<>>
    THEN Outcome(FALSE, [raised |-> "TypeError", value |-> EmptyDict])
    ELSE IF service.kind = "raises"
    THEN Outcome(TRUE, Return(DegradedScenario(service.error, persona_name,
                                               difficulty)))
    ELSE LET scenario_data == json_loads(service)
         IN IF scenario_data.raised = "none"
            THEN Outcome(TRUE, Return(Update(scenario_data.value, persona_name,
                                             difficulty, draw)))
            ELSE Outcome(TRUE, Return(DegradedScenario(scenario_data.raised,
                                                       persona_name, difficulty)))

\* lines 29-79; draw is the value of random.randint(1000, 9999)
generate_scenario(loaded, persona_name, difficulty, service, draw) ==
    IF FindPersona(loaded, persona_name) = <<>>
    THEN Outcome(FALSE, Return(PersonaNotFound))
    ELSE IF service.kind = "raises"
    THEN Outcome(TRUE, Return(DegradedScenario(service.error, persona_name,
                                               difficulty)))
    ELSE LET scenario_data == json_loads(service)
         IN IF scenario_data.raised = "none"
            THEN Outcome(TRUE, Return(Update(scenario_data.value, persona_name,
                                             difficulty, draw)))
            ELSE Outcome(TRUE, Return(DegradedScenario(scenario_data.raised,
                                                       persona_name, difficulty)))

(***************************************************************************)
(* Inputs of the operations.                                               *)
(***************************************************************************)
TraineeIds == {"u1"}

\* the ladder and one string that is not on it
CurrentDifficulties == {"Easy", "Medium", "Hard", "Expert", "Beginner"}

\* a judged evaluation as evaluate_response returns it and
\* _save_training_result files it under 'scores'
Evaluation(a, b, c, d, feedback) ==
    [k \in EvaluationKeys |->
        CASE k \in Dimensions -> Scores(a, b, c, d)[k]
          [] k = "feedback" -> Str(feedback)
          [] k = "suggestions" -> List("Greet first, Offer alternatives")]

\* what callers file under 'scores'
StoredScores ==
    { Scores(5, 5, 5, 5), Scores(5, 4, 4, 3), Scores(2, 2, 2, 2),
      Evaluation(5, 5, 5, 5, "Clear and empathetic.") }

\* the scale the judge is asked to rate on
ScaleMin == 1
ScaleMax == 5

\* what the judge may put, or leave out, under a dimension
JudgedScores ==
    {Absent, Str("high")}
        \cup {Num(n) : n \in (ScaleMin - OutOfRange)..(ScaleMax + OutOfRange)}

\* the JSON objects the judge may answer with
JudgedObjects ==
    { Dict([k \in EvaluationKeys |->
                CASE k = "accuracy" -> a
                  [] k = "application" -> b
                  [] k = "communication" -> c
                  [] k = "adaptability" -> d
                  [] k = "feedback" -> f
                  [] k = "suggestions" -> g]) :
        a \in JudgedScores, b \in JudgedScores, c \in JudgedScores,
        d \in JudgedScores,
        f \in {Absent, Str("Good rapport, weak close.")},
        g \in {Absent, List("Ask open questions, Confirm the budget")} }

\* everything the completion service may do on a call
ServiceBehaviours ==
    {ServiceRaises(e) :
        e \in {"Request timed out", "Connection error", "The server is overloaded"}}
        \cup {ServiceAnswers(FALSE, EmptyDict)}
        \cup {ServiceAnswers(TRUE, object) : object \in JudgedObjects}

\* a scenario holding every field
FullScenario ==
    [k \in {"description", "customer_dialogue", "challenge", "learning_outcome",
            "persona", "difficulty"} |->
        CASE k = "persona" -> Str("Budget-Conscious Shopper")
          [] k = "difficulty" -> Str("Medium")
          [] OTHER -> Str("Generic customer interaction")]

\* the scenarios evaluate_response is handed
EvaluatedScenarios == {FullScenario, PersonaNotFound}

\* the rows of the personas table
LoadedPersonas ==
    << [name |-> "Bargain Hunter", profile |-> "32-year-old working professional"],
       [name |-> "Overwhelmed Parent", profile |-> "40-year-old father with two kids"],
       [name |-> "Trend-Seeking Influencer", profile |-> "22-year-old college student"] >>

\* a persona of the table and a name that is in no table
PersonaNames == {"Bargain Hunter", "Window Shopper"}

\* a level of the ladder and a string that is not one
RequestedDifficulties == {"Medium", "Impossible"}

\* what the generator may put, or leave out, under a field of the scenario
GeneratedTexts == {Absent, Str(""), Str("A customer wants a further discount")}

\* the JSON objects the generator may answer with
GeneratedObjects ==
    { Dict([k \in ScenarioFields |->
                CASE k = "description" -> a
                  [] k = "customer_dialogue" -> b
                  [] k = "challenge" -> c
                  [] k = "learning_outcome" -> d]) :
        a \in GeneratedTexts, b \in GeneratedTexts, c \in GeneratedTexts,
        d \in GeneratedTexts }

\* everything the completion service may do on a generation call
GenerationBehaviours ==
    {ServiceRaises(e) :
        e \in {"Request timed out", "Connection error", "The server is overloaded"}}
        \cup {ServiceAnswers(FALSE, EmptyDict)}
        \cup {ServiceAnswers(TRUE, object) : object \in GeneratedObjects}

\* line 66: both ends of random.randint(1000, 9999) and one value between
RandomDraws == {1000, 4242, 9999}

(***************************************************************************)
(* ScenarioGenerator (src/utils/scenario_generator.py).  The scenario      *)
(* dicts are objects: heap[ref] is the dict behind reference ref, and the  *)
(* buckets of scenarios_db hold references, so that a dict reached by two  *)
(* paths is one dict.                                                      *)
(***************************************************************************)
Template(description, customer_dialogue, challenge, learning_outcome) ==
    [description |-> Str(description),
     customer_dialogue |-> Str(customer_dialogue),
     challenge |-> Str(challenge),
     learning_outcome |-> Str(learning_outcome)]

\* the dicts of the scenarios_db literal, in the order they are written (the
\* rupee sign of line 19 written Rs)
Templates ==
    <<
      Template("A customer is looking at a discounted shirt but wants an additional discount",
               "This shirt is already 30% off, but I saw it cheaper online. Can you match that price?",
               "Price objection handling",
               "Learn to handle price objections while maintaining value proposition"),
      Template("Customer comparing multiple similar products by price only",
               "These two shirts look the same to me. Why is this one Rs 200 more expensive?",
               "Value differentiation",
               "Communicate product value beyond just price"),
      Template("Customer wants to negotiate bulk discount for family shopping",
               "I'm buying for my whole family today. What kind of bulk discount can you offer?",
               "Negotiation and bundle selling",
               "Handle bulk purchase negotiations professionally"),
      Template("Aggressive price negotiator threatening to leave",
               "Your competitor is offering 50% off everything. I'll leave right now unless you can beat that.",
               "Aggressive negotiation tactics",
               "Handle high-pressure situations while protecting margins"),
      Template("Parent with crying child needs quick clothing solution",
               "I need school uniforms for my son quickly. He's getting restless. What do you have in size 8?",
               "Time-pressured service",
               "Provide efficient service under time pressure"),
      Template("Parent shopping for multiple children with different needs",
               "I need clothes for three kids - school wear for one, party dress for another, and casual wear for the third. Where do I start?",
               "Complex multi-need situations",
               "Organize and prioritize multiple customer needs"),
      Template("Frustrated parent with budget constraints and picky children",
               "My daughter hates everything I pick, my budget is tight, and we need clothes today. This is impossible!",
               "Managing stress and constraints",
               "Handle emotionally charged situations with empathy"),
      Template("Young customer looking for Instagram-worthy outfit",
               "I need something that will look amazing in photos. What's your most Instagram-worthy piece?",
               "Style consultation",
               "Provide fashion advice and styling suggestions"),
      Template("Influencer wanting exclusive or limited edition items",
               "Do you have anything exclusive that my followers haven't seen everywhere else?",
               "Exclusivity and differentiation",
               "Position products as unique and desirable"),
      Template("High-maintenance influencer with specific brand requirements",
               "I only wear sustainable, ethically-made clothes that photograph well under studio lights. What can you show me?",
               "Specific and demanding requirements",
               "Handle complex product specifications and customer demands")
    >>

\* one persona's buckets, by difficulty
Buckets(easy, medium, hard) ==
    [difficulty \in {"Easy", "Medium", "Hard"} |->
        IF difficulty = "Easy" THEN easy
        ELSE IF difficulty = "Medium" THEN medium ELSE hard]

\* the scenarios_db literal: persona, then difficulty, then the list
InitialCatalog ==
    [persona \in {"Bargain Hunter", "Overwhelmed Parent", "Trend-Seeking Influencer"} |->
        IF persona = "Bargain Hunter" THEN Buckets(<<1, 2>>, <<3>>, <<4>>)
        ELSE IF persona = "Overwhelmed Parent" THEN Buckets(<<5>>, <<6>>, <<7>>)
        ELSE Buckets(<<8>>, <<9>>, <<10>>)]

\* d[k] = v on a dict
Put(d, k, v) == [x \in DOMAIN d \cup {k} |-> IF x = k THEN v ELSE d[x]]

\* persona in scenarios_db and difficulty in scenarios_db[persona]
HasBucket(db, persona, difficulty) ==
    persona \in DOMAIN db /\ difficulty \in DOMAIN db[persona]

\* the list random.choice draws from, empty when the condition fails
BucketOf(db, persona, difficulty) ==
    IF HasBucket(db, persona, difficulty) THEN db[persona][difficulty] ELSE <<>>

StampNothing(scenario, persona, difficulty) == scenario

\* scenario['persona'] = persona; scenario['difficulty'] = difficulty
Stamp(scenario, persona, difficulty) ==
    Put(Put(scenario, "persona", Str(persona)), "difficulty", Str(difficulty))

FallbackUnlabelled(persona, difficulty) ==
    [description |-> Str("Generic customer interaction"),
     customer_dialogue |-> Str("Hello, I'm looking for some clothes."),
     challenge |-> Str("General customer service"),
     learning_outcome |-> Str("Practice basic customer interaction")]

\* the dict of the else branch
FallbackScenario(persona, difficulty) ==
    [description |-> Str("Generic customer interaction"),
     customer_dialogue |-> Str("Hello, I'm looking for some clothes."),
     challenge |-> Str("General customer service"),
     learning_outcome |-> Str("Practice basic customer interaction"),
     persona |-> Str(persona),
     difficulty |-> Str(difficulty)]

\* get_scenario(persona, difficulty) on catalog db and objects hp, pick being
\* the position random.choice draws (random.choice of an empty list raises
\* IndexError).  The chosen dict is written in place and returned itself:
\* ref names it, 0 for the new dict of the else branch.
get_scenario(db, hp, persona, difficulty, pick) ==
    IF HasBucket(db, persona, difficulty)
    THEN LET scenarios == db[persona][difficulty]
         IN IF scenarios = <<>>
            THEN [raised |-> "IndexError", ref |-> 0, value |-> EmptyDict, heap |-> hp]
            ELSE LET ref == scenarios[pick]
                     scenario == Stamp(hp[ref], persona, difficulty)
                 IN [raised |-> "none", ref |-> ref, value |-> scenario,
                     heap |-> [hp EXCEPT ![ref] = scenario]]
    ELSE [raised |-> "none", ref |-> 0,
          value |-> FallbackScenario(persona, difficulty), heap |-> hp]

\* add_custom_scenario(persona, difficulty, scenario), the dict passed being
\* the object ref: missing buckets are created, then the object is appended
add_custom_scenario(db, persona, difficulty, ref) ==
    LET with_persona == IF persona \in DOMAIN db THEN db
                        ELSE Put(db, persona, EmptyDict)
        with_bucket == IF difficulty \in DOMAIN with_persona[persona]
                       THEN with_persona
                       ELSE Put(with_persona, persona,
                                Put(with_persona[persona], difficulty, <<>>))
    IN Put(with_bucket, persona,
           Put(with_bucket[persona], difficulty,
               Append(with_bucket[persona][difficulty], ref)))

(***************************************************************************)
(* DatabaseHandler.save_training_session and get_user_performance          *)
(* (src/main.py).  Floats are exact fractions, kept in lowest terms.       *)
(***************************************************************************)
Abs(n) == IF n < 0 THEN -n ELSE n

RECURSIVE Gcd(_, _)
Gcd(a, b) == IF b = 0 THEN a ELSE Gcd(b, a % b)

\* n / d in lowest terms, d > 0
Ratio(n, d) ==
    LET g == Gcd(Abs(n), d)
    IN Fraction(n \div g, d \div g)

Plus(p, q) == Ratio(p.num * q.den + q.num * p.den, p.den * q.den)
Minus(p, q) == Ratio(p.num * q.den - q.num * p.den, p.den * q.den)
Times(p, q) == Ratio(p.num * q.num, p.den * q.den)
\* p / q for q # 0
Over(p, q) ==
    IF q.num > 0 THEN Ratio(p.num * q.den, p.den * q.num)
    ELSE Ratio(-(p.num * q.den), p.den * (-q.num))

\* the keys of a dict in the order json.dumps writes them here: the order
\* the score dicts are built in
KeyOrder ==
    <<"accuracy", "application", "communication", "adaptability", "feedback",
      "suggestions">>

\* json.dumps of one value
DumpValue(v) ==
    IF v.type = "int" THEN ToString(v.num)
    ELSE IF v.type = "str" THEN "\"" \o v.text \o "\""
    ELSE "[" \o v.text \o "]"

RECURSIVE DumpItems(_, _)
DumpItems(d, i) ==
    IF i > Len(KeyOrder) THEN <<>>
    ELSE IF KeyOrder[i] \in DOMAIN d
         THEN <<"\"" \o KeyOrder[i] \o "\": " \o DumpValue(d[KeyOrder[i]])>>
                \o DumpItems(d, i + 1)
         ELSE DumpItems(d, i + 1)

RECURSIVE Join(_)
Join(items) ==
    IF items = <<>> THEN ""
    ELSE IF Len(items) = 1 THEN items[1]
    ELSE items[1] \o ", " \o Join(Tail(items))

\* json.dumps(scores)
json_dumps(d) == "{" \o Join(DumpItems(d, 1)) \o "}"

(***************************************************************************)
(* Inputs of the catalog and of the performance summary.                   *)
(***************************************************************************)
\* personas and difficulties get_scenario is asked for: one of the catalog's
\* personas and one that is not in it; two of its difficulties, one no
\* persona has a bucket for, and a string that is no level
LookupPersonas == {"Bargain Hunter", "Window Shopper"}
LookupDifficulties == {"Easy", "Hard", "Expert", "Impossible"}

\* where add_custom_scenario puts a dict
CustomPersonas == {"Bargain Hunter", "Window Shopper"}
CustomDifficulties == {"Easy", "Expert"}

\* a dict written by the caller of add_custom_scenario
CustomScenario ==
    Template("Customer returns a worn item without a receipt",
             "I bought this last month and it already faded. I want my money back.",
             "Returns policy",
             "Apply the returns policy with tact")

\* the score dicts save_training_session is called with: totals 2, 4 and 0,
\* a dict with no entry and one with a text among the numbers
SavedScores ==
    { Scores(2, 2, 2, 2), Scores(5, 4, 4, 3), Scores(0, 0, 0, 0), EmptyDict,
      Evaluation(5, 5, 5, 5, "Clear and empathetic.") }

\* the trainees get_user_performance is asked about; only u1 has sessions
PerformanceIds == {"u1", "u2"}

\* score dicts that lack keys: none, one dimension, all but one, all
SparseScores ==
    { Scores(5, 5, 5, 5),
      Dict([k \in Dimensions |-> IF k = "accuracy" THEN Absent ELSE Num(4)]),
      Dict([k \in Dimensions |-> IF k = "accuracy" THEN Num(2) ELSE Absent]),
      EmptyDict }

\* the dicts whose JSON text the table may hold
JsonDicts == SavedScores \cup SparseScores

\* the text json.dumps writes for each of the score dicts
Dumped == [d \in JsonDicts |-> json_dumps(d)]

\* json.loads of a stored scores column: a text that json.dumps wrote parses
\* to the dict it was written from; a column that is not a text is a
\* TypeError, any other text a JSONDecodeError
loads(column) ==
    IF "type" \notin DOMAIN column \/ column.type # "str" THEN Raise("TypeError")
    ELSE IF \E d \in JsonDicts : Dumped[d] = column.text
         THEN Return(CHOOSE d \in JsonDicts : Dumped[d] = column.text)
         ELSE Raise("JSONDecodeError")

\* the row save_training_session inserts
SessionRow(user_id, scenario_id, response, scores, now) ==
    [user_id |-> user_id, scenario_id |-> scenario_id, response |-> response,
     scores |-> Str(json_dumps(scores)),
     total_score |-> Ratio(SumNumbers(scores, DOMAIN scores),
                           Cardinality(DOMAIN scores)),
     completed_at |-> now]

save_training_session_replacing(table, user_id, scenario_id, response, scores, now) ==
    IF ~Summable(scores)
    THEN [table |-> table, returned |-> FALSE, caught |-> "TypeError"]
    ELSE IF DOMAIN scores = {}
    THEN [table |-> table, returned |-> FALSE, caught |-> "ZeroDivisionError"]
    ELSE [table |-> <<SessionRow(user_id, scenario_id, response, scores, now)>>,
          returned |-> TRUE, caught |-> "none"]

\* save_training_session(user_id, scenario_id, response, scores) at time
\* now: the table after the call and the value returned
save_training_session(table, user_id, scenario_id, response, scores, now) ==
    IF ~Summable(scores)
    THEN [table |-> table, returned |-> FALSE, caught |-> "TypeError"]
    ELSE IF DOMAIN scores = {}
    THEN [table |-> table, returned |-> FALSE, caught |-> "ZeroDivisionError"]
    ELSE [table |-> Append(table, SessionRow(user_id, scenario_id, response,
                                             scores, now)),
          returned |-> TRUE, caught |-> "none"]

\* s.get("total_score", 0)
TotalScore(s) ==
    IF "total_score" \in DOMAIN s THEN s.total_score ELSE Fraction(0, 1)

\* x.get("completed_at", ""), the empty text below every time
CompletedAt(s) == IF "completed_at" \in DOMAIN s THEN s.completed_at ELSE 0

RECURSIVE SumTotals(_)
SumTotals(sessions) ==
    IF sessions = <<>> THEN Fraction(0, 1)
    ELSE Plus(TotalScore(Head(sessions)), SumTotals(Tail(sessions)))

RECURSIVE MaxTotal(_)
MaxTotal(sessions) ==
    IF Len(sessions) = 1 THEN TotalScore(sessions[1])
    ELSE LET rest == MaxTotal(Tail(sessions))
         IN IF GreaterEq(TotalScore(sessions[1]), rest)
            THEN TotalScore(sessions[1]) ELSE rest

\* sum(...) / n for n > 0
Mean(sessions, n) == Over(SumTotals(sessions), Fraction(n, 1))

\* s put into the list sorted, after the sessions that are not older
RECURSIVE Insert(_, _)
Insert(sorted, s) ==
    IF sorted = <<>> THEN <<s>>
    ELSE IF CompletedAt(Head(sorted)) >= CompletedAt(s)
         THEN <<Head(sorted)>> \o Insert(Tail(sorted), s)
         ELSE <<s>> \o sorted

\* sorted(sessions, key=completed_at, reverse=True): latest first, sessions
\* of one time in their order
RECURSIVE SortedLatestFirst(_)
SortedLatestFirst(sessions) ==
    IF sessions = <<>> THEN <<>>
    ELSE Insert(SortedLatestFirst(SubSeq(sessions, 1, Len(sessions) - 1)),
                sessions[Len(sessions)])

RecentCount == 5

HasQuartersAlways(n) == n >= 1

\* len(sessions) >= 4
HasQuarters(n) == n >= 4

QuarterAsThird(n) == n \div 3

\* len(sessions) // 4
Quarter(n) == n \div 4

\* the improvement rate of lines 211-215; both divisions, by quarter and by
\* early_avg, raise ZeroDivisionError on zero
ImprovementRate(sessions) ==
    IF ~HasQuarters(Len(sessions)) THEN Return(Fraction(0, 1))
    ELSE LET quarter == Quarter(Len(sessions))
             early == SubSeq(sessions, 1, quarter)
             recent == SubSeq(sessions, Len(sessions) - quarter + 1, Len(sessions))
         IN IF quarter = 0 THEN Raise("ZeroDivisionError")
            ELSE IF Mean(early, quarter).num = 0 THEN Raise("ZeroDivisionError")
            ELSE Return(Times(Over(Minus(Mean(recent, quarter), Mean(early, quarter)),
                                   Mean(early, quarter)),
                              Fraction(100, 1)))

\* session.get("scores", "{}")
ScoresColumn(s) == IF "scores" \in DOMAIN s THEN s.scores ELSE Str("{}")

\* json.loads of every scores column, in the order of the sessions
LoadAll(sessions) == [i \in 1..Len(sessions) |-> loads(ScoresColumn(sessions[i]))]

\* the exception json.loads raises first, "none" when every column parses
LoadError(loaded) ==
    IF \A i \in 1..Len(loaded) : loaded[i].raised = "none" THEN "none"
    ELSE loaded[CHOOSE i \in 1..Len(loaded) :
                    /\ loaded[i].raised # "none"
                    /\ \A j \in 1..(i - 1) : loaded[j].raised = "none"].raised

CategoryScoresZeroFilled(dicts, category) ==
    [i \in 1..Len(dicts) |->
        IF category \in DOMAIN dicts[i] THEN dicts[i][category] ELSE Num(0)]

\* the scores of one category over the dicts that have it
CategoryScores(dicts, category) ==
    SelectSeq([i \in 1..Len(dicts) |->
                    IF category \in DOMAIN dicts[i] THEN dicts[i][category]
                    ELSE Absent],
              LAMBDA v : v # Absent)

RECURSIVE SumValues(_)
SumValues(values) ==
    IF values = <<>> THEN 0 ELSE Head(values).num + SumValues(Tail(values))

\* scores_by_category: the mean of every category some session has
ScoresByCategory(dicts) ==
    [category \in UNION {DOMAIN dicts[i] : i \in 1..Len(dicts)} |->
        Ratio(SumValues(CategoryScores(dicts, category)),
              Len(CategoryScores(dicts, category)))]

\* sum(scores) of line 227 meets a value that is not a number
CategoryTypeError(dicts) ==
    \E i \in 1..Len(dicts) :
        \E category \in DOMAIN dicts[i] : ~IsNumber(dicts[i][category])

\* what get_user_performance returns from the except branch
Caught(e) == [value |-> EmptyDict, caught |-> e]

\* get_user_performance(user_id) on the table: the dict returned and the
\* exception the except branch caught, "none" when it was not entered
get_user_performance(table, user_id) ==
    LET sessions == UserRows(table, user_id)
        rate == ImprovementRate(sessions)
        loaded == LoadAll(sessions)
        dicts == [i \in 1..Len(loaded) |-> loaded[i].value]
    IN IF sessions = <<>> THEN [value |-> EmptyDict, caught |-> "none"]
       ELSE IF rate.raised # "none" THEN Caught(rate.raised)
       ELSE IF LoadError(loaded) # "none" THEN Caught(LoadError(loaded))
       ELSE IF CategoryTypeError(dicts) THEN Caught("TypeError")
       ELSE [value |->
                [total_sessions |-> Len(sessions),
                 avg_score |-> Over(SumTotals(sessions), Fraction(Len(sessions), 1)),
                 best_score |-> MaxTotal(sessions),
                 improvement_rate |-> rate.value,
                 scores_by_category |-> ScoresByCategory(dicts),
                 sessions_by_persona |-> EmptyDict,
                 recent_sessions |->
                    SubSeq(SortedLatestFirst(sessions), 1,
                           Min(Len(sessions), RecentCount))],
             caught |-> "none"]

(***************************************************************************)
(* State machine.                                                          *)
(***************************************************************************)
NoCall == [called |-> FALSE, user_id |-> "", current_difficulty |-> "",
           history_data |-> <<>>, raised |-> "none", value |-> ""]

NoEvaluation == [called |-> FALSE, scenario |-> EmptyDict,
                 service_called |-> FALSE, raised |-> "none", value |-> EmptyDict]

NoScenario == [called |-> FALSE, persona_name |-> "", difficulty |-> "",
               service_called |-> FALSE, raised |-> "none", value |-> EmptyDict]

\* nothing looked up yet
NoLookup == [called |-> FALSE, persona |-> "", difficulty |-> "",
             scenarios |-> <<>>, template |-> EmptyDict,
             raised |-> "none", ref |-> 0, value |-> EmptyDict]

\* ScenarioGenerator.__init__
InitScenarios ==
    /\ heap = Templates
    /\ scenarios_db = InitialCatalog
    /\ lookup = NoLookup

\* nothing saved, nothing summarised yet
NoSave == [called |-> FALSE, scores |-> EmptyDict, returned |-> FALSE,
           caught |-> "none"]

NoPerformance == [called |-> FALSE, user_id |-> "", sessions |-> <<>>,
                  value |-> EmptyDict, caught |-> "none"]

InitPerformance ==
    /\ saved = NoSave
    /\ performance = NoPerformance

\* the sessions that may register at the same time, and the emails they ask for
Sessions == {"s1", "s2"}
Emails == {"asha@store.in", "ravi@store.in"}

\* a session that is in no register_user call
Idle == [pc |-> "idle", email |-> "", existing |-> <<>>, returned |-> FALSE,
        inserted |-> FALSE]

\* supabase.table('users').select('id').eq('email', email)
UsersWith(table, email) == SelectSeq(table, LAMBDA row : row.email = email)

\* an empty users table, no call under way
InitUsers ==
    /\ users = <<>>
    /\ registering = [session \in Sessions |-> Idle]

\* nothing generated yet, the personas table loaded
InitSynth ==
    /\ personas = LoadedPersonas
    /\ generator = ServiceRaises("Connection error")
    /\ generated = NoScenario
    /\ created_ids = <<>>

Init ==
    /\ training_sessions = <<>>
    /\ adaptive = NoCall
    /\ current_level = "Easy"
    /\ judge = ServiceRaises("Connection error")
    /\ evaluated = NoEvaluation
    /\ InitSynth
    /\ InitScenarios
    /\ InitPerformance
    /\ InitUsers

\* database.insert_training_session: one more row, at the end of the table
InsertScores(user_id, scores) ==
    /\ Len(training_sessions) < MaxRows
    /\ training_sessions' = Append(training_sessions, Row(user_id, scores))
    /\ adaptive' = NoCall
    /\ UNCHANGED <<auth_vars, current_level, judge, evaluated, synth_vars, catalog_vars, perf_vars>>

InsertTrainingSessionFor(user_id) ==
    \E scores \in StoredScores : InsertScores(user_id, scores)

InsertTrainingSession ==
    \E user_id \in TraineeIds : InsertTrainingSessionFor(user_id)

\* TrainingEngine.get_adaptive_difficulty(user_id, current_difficulty)
GetAdaptiveDifficultyOf(user_id, current_difficulty) ==
    LET history_data == Limit(UserRows(training_sessions, user_id))
        out == get_adaptive_difficulty(history_data, current_difficulty)
    IN /\ adaptive' = [called |-> TRUE, user_id |-> user_id,
                       current_difficulty |-> current_difficulty,
                       history_data |-> history_data,
                       raised |-> out.raised, value |-> out.value]
       /\ UNCHANGED <<auth_vars, training_sessions, judge, evaluated, synth_vars, catalog_vars,
                    perf_vars>>

GetAdaptiveDifficulty ==
    \E user_id \in TraineeIds, current_difficulty \in CurrentDifficulties :
        /\ GetAdaptiveDifficultyOf(user_id, current_difficulty)
        /\ UNCHANGED current_level

\* TrainingEngine._save_training_result(scenario, response, evaluation): the
\* session_data dict is built and dropped, the insert is a comment, and a
\* scenario without persona or difficulty only prints; the table is left as
\* it was
save_training_result(table, scenario, evaluation) == table

\* TrainingEngine.evaluate_response(scenario, user_response); the response
\* text only enters the prompt
EvaluateResponseTo(scenario) ==
    LET out == evaluate_response(scenario, judge)
    IN /\ evaluated' = [called |-> TRUE, scenario |-> scenario,
                        service_called |-> out.service_called,
                        raised |-> out.raised, value |-> out.value]
       /\ training_sessions' =
            IF out.service_called /\ judge.kind = "json"
            THEN save_training_result(training_sessions, scenario, out.value)
            ELSE training_sessions
       /\ UNCHANGED <<auth_vars, current_level, adaptive, judge, synth_vars, catalog_vars, perf_vars>>

EvaluateResponse ==
    \E scenario \in EvaluatedScenarios : EvaluateResponseTo(scenario)

\* the id of a returned scenario, Absent when it has none
IdOf(scenario) == IF "id" \in DOMAIN scenario THEN scenario["id"] ELSE Absent

\* TrainingEngine.generate_scenario(persona_name, difficulty).  A call opens
\* a training turn: the results of the turn before are dropped
GenerateScenario ==
    \E persona_name \in PersonaNames, difficulty \in RequestedDifficulties,
       draw \in RandomDraws :
        LET out == generate_scenario(personas, persona_name, difficulty, generator,
                                     draw)
        IN /\ Len(created_ids) < MaxScenarios
           /\ generated' = [called |-> TRUE, persona_name |-> persona_name,
                            difficulty |-> difficulty,
                            service_called |-> out.service_called,
                            raised |-> out.raised, value |-> out.value]
           /\ created_ids' =
                IF out.raised = "none" /\ out.value # PersonaNotFound
                THEN Append(created_ids, IdOf(out.value)) ELSE created_ids
           /\ evaluated' = NoEvaluation
           /\ adaptive' = NoCall
           /\ UNCHANGED <<auth_vars, current_level, training_sessions, judge, personas, generator, catalog_vars,
                        perf_vars>>

\* the positions random.choice may draw in the bucket asked for
Picks(db, persona, difficulty) ==
    IF BucketOf(db, persona, difficulty) = <<>> THEN {0}
    ELSE 1..Len(BucketOf(db, persona, difficulty))

\* ScenarioGenerator.get_scenario(persona, difficulty); lookup keeps the
\* bucket and the chosen dict as they were before the call
GetScenario ==
    \E persona \in LookupPersonas, difficulty \in LookupDifficulties :
        \E pick \in Picks(scenarios_db, persona, difficulty) :
            LET out == get_scenario(scenarios_db, heap, persona, difficulty, pick)
            IN /\ heap' = out.heap
               /\ lookup' = [called |-> TRUE, persona |-> persona,
                             difficulty |-> difficulty,
                             scenarios |-> BucketOf(scenarios_db, persona, difficulty),
                             template |-> IF out.ref = 0 THEN EmptyDict
                                          ELSE heap[out.ref],
                             raised |-> out.raised, ref |-> out.ref,
                             value |-> out.value]
               /\ UNCHANGED <<auth_vars, current_level, scenarios_db, training_sessions, engine_vars, perf_vars>>

\* the number of dicts in the lists of the buckets in pairs
RECURSIVE CountEntries(_, _)
CountEntries(db, pairs) ==
    IF pairs = {} THEN 0
    ELSE LET pair == CHOOSE p \in pairs : TRUE
         IN Len(db[pair[1]][pair[2]]) + CountEntries(db, pairs \ {pair})

\* the number of dicts add_custom_scenario has appended
Added(db) ==
    CountEntries(db, UNION {{<<persona, difficulty>> : difficulty \in DOMAIN db[persona]}
                                : persona \in DOMAIN db})
        - Len(Templates)

\* ScenarioGenerator.add_custom_scenario(persona, difficulty, scenario) with
\* a dict the caller wrote
AddNewScenario ==
    \E persona \in CustomPersonas, difficulty \in CustomDifficulties :
        /\ Added(scenarios_db) < MaxCustom
        /\ heap' = Append(heap, CustomScenario)
        /\ scenarios_db' = add_custom_scenario(scenarios_db, persona, difficulty,
                                               Len(heap) + 1)
        /\ UNCHANGED <<auth_vars, current_level, lookup, training_sessions, engine_vars, perf_vars>>

\* ScenarioGenerator.add_custom_scenario(persona, difficulty, scenario) with
\* the dict the last get_scenario call took from the catalog
AddReturnedScenario ==
    \E persona \in CustomPersonas, difficulty \in CustomDifficulties :
        /\ Added(scenarios_db) < MaxCustom
        /\ lookup.called
        /\ lookup.ref # 0
        /\ scenarios_db' = add_custom_scenario(scenarios_db, persona, difficulty,
                                               lookup.ref)
        /\ UNCHANGED <<auth_vars, current_level, heap, lookup, training_sessions, engine_vars, perf_vars>>

AddCustomScenario == AddNewScenario \/ AddReturnedScenario

\* DatabaseHandler.save_training_session(user_id, scenario_id, response,
\* scores); datetime.now() is the position of the new row
SaveTrainingSession ==
    \E user_id \in TraineeIds, scores \in SavedScores :
        LET out == save_training_session(training_sessions, user_id, "1001",
                                         "I understand, let me check the price.",
                                         scores, Len(training_sessions) + 1)
        IN /\ Len(training_sessions) < MaxSessions
           /\ training_sessions' = out.table
           /\ saved' = [called |-> TRUE, scores |-> scores,
                        returned |-> out.returned, caught |-> out.caught]
           /\ performance' = NoPerformance
           /\ adaptive' = NoCall
           /\ UNCHANGED <<auth_vars, current_level, judge, evaluated, synth_vars, catalog_vars>>

\* DatabaseHandler.get_user_performance(user_id)
GetUserPerformance ==
    \E user_id \in PerformanceIds :
        LET out == get_user_performance(training_sessions, user_id)
        IN /\ performance' = [called |-> TRUE, user_id |-> user_id,
                              sessions |-> UserRows(training_sessions, user_id),
                              value |-> out.value, caught |-> out.caught]
           /\ saved' = NoSave
           /\ UNCHANGED <<auth_vars, current_level, training_sessions, engine_vars, catalog_vars>>

Next == InsertTrainingSession \/ GetAdaptiveDifficulty

Spec == Init /\ [][Next]_vars

\* evaluate_response under every behaviour of the completion service
InitEval ==
    /\ training_sessions = <<>>
    /\ adaptive = NoCall
    /\ current_level = "Easy"
    /\ judge \in ServiceBehaviours
    /\ evaluated = NoEvaluation
    /\ InitSynth
    /\ InitScenarios
    /\ InitPerformance
    /\ InitUsers

NextEval == EvaluateResponse

SpecEval == InitEval /\ [][NextEval]_vars

\* One training turn after the other: generate_scenario, then
\* evaluate_response on the scenario it returned, then
\* get_adaptive_difficulty at the difficulty of the turn
TurnEvaluate ==
    /\ generated.called
    /\ generated.raised = "none"
    /\ ~evaluated.called
    /\ EvaluateResponseTo(generated.value)

TurnAdapt ==
    /\ evaluated.called
    /\ evaluated.raised = "none"
    /\ ~adaptive.called
    /\ \E user_id \in TraineeIds :
            GetAdaptiveDifficultyOf(user_id, generated.difficulty)
    /\ UNCHANGED current_level

\* the histories a turn may find stored
TurnHistories ==
    { <<>>,
      [i \in 1..WindowSize |-> Row("u1", Scores(5, 5, 5, 5))],
      <<Row("u1", Evaluation(5, 5, 5, 5, "Clear and empathetic."))>> }

\* what the judge may do in a turn
TurnJudges ==
    { ServiceRaises("Request timed out"),
      ServiceAnswers(FALSE, EmptyDict),
      ServiceAnswers(TRUE, Evaluation(4, 4, 3, 5, "Good rapport, weak close.")),
      ServiceAnswers(TRUE, EmptyDict) }

InitTurn ==
    /\ training_sessions \in TurnHistories
    /\ adaptive = NoCall
    /\ current_level = "Easy"
    /\ judge \in TurnJudges
    /\ evaluated = NoEvaluation
    /\ personas = LoadedPersonas
    /\ generator \in GenerationBehaviours
    /\ generated = NoScenario
    /\ created_ids = <<>>
    /\ InitScenarios
    /\ InitPerformance
    /\ InitUsers

NextTurn == GenerateScenario \/ TurnEvaluate \/ TurnAdapt

SpecTurn == InitTurn /\ [][NextTurn]_vars

\* the table after insert_training_session stored the dicts for u1
RECURSIVE InsertedHistory(_)
InsertedHistory(dicts) ==
    IF dicts = <<>> THEN <<>>
    ELSE Append(InsertedHistory(SubSeq(dicts, 1, Len(dicts) - 1)),
                Row("u1", dicts[Len(dicts)]))

\* the table after save_training_session was called with the dicts for u1
RECURSIVE SavedHistory(_)
SavedHistory(dicts) ==
    IF dicts = <<>> THEN <<>>
    ELSE LET table == SavedHistory(SubSeq(dicts, 1, Len(dicts) - 1))
         IN save_training_session(table, "u1", "1001", "Let me check.",
                                  dicts[Len(dicts)], Len(table) + 1).table

\* the histories of up to MaxSparse calls of one of the two writers
SparseHistories ==
    LET calls == UNION {[1..n -> SparseScores] : n \in 1..MaxSparse}
    IN {InsertedHistory(dicts) : dicts \in calls}
        \cup {SavedHistory(dicts) : dicts \in calls}

\* the two readers over histories whose score dicts lack keys
InitSparse ==
    /\ training_sessions \in SparseHistories
    /\ adaptive = NoCall
    /\ current_level = "Easy"
    /\ judge = ServiceRaises("Connection error")
    /\ evaluated = NoEvaluation
    /\ InitSynth
    /\ InitScenarios
    /\ InitPerformance
    /\ InitUsers

NextSparse == GetAdaptiveDifficulty \/ GetUserPerformance

SpecSparse == InitSparse /\ [][NextSparse]_vars

\* what the completion service may do when scenarios of both sources are
\* produced
ProducedBehaviours ==
    { ServiceRaises("Connection error"),
      ServiceAnswers(FALSE, EmptyDict),
      ServiceAnswers(TRUE, FullScenario),
      ServiceAnswers(TRUE, EmptyDict) }

\* scenarios from the catalog and from the completion service
InitProduced ==
    /\ training_sessions = <<>>
    /\ adaptive = NoCall
    /\ current_level = "Easy"
    /\ judge = ServiceRaises("Connection error")
    /\ evaluated = NoEvaluation
    /\ personas = LoadedPersonas
    /\ generator \in ProducedBehaviours
    /\ generated = NoScenario
    /\ created_ids = <<>>
    /\ InitScenarios
    /\ InitPerformance
    /\ InitUsers

NextProduced == GetScenario \/ GenerateScenario

SpecProduced == InitProduced /\ [][NextProduced]_vars

\* every operation on the history, the two writers kept to MaxHistory rows
HistorySave == Len(training_sessions) < MaxHistory /\ SaveTrainingSession

HistoryInsert == Len(training_sessions) < MaxHistory /\ InsertTrainingSession

\* the judge fails or answers with an evaluation
InitHistory ==
    /\ training_sessions = <<>>
    /\ adaptive = NoCall
    /\ current_level = "Easy"
    /\ judge \in { ServiceRaises("Request timed out"),
                   ServiceAnswers(TRUE, Evaluation(4, 4, 3, 5, "Good rapport, weak close.")) }
    /\ evaluated = NoEvaluation
    /\ InitSynth
    /\ InitScenarios
    /\ InitPerformance
    /\ InitUsers

NextHistory ==
    \/ HistorySave
    \/ HistoryInsert
    \/ EvaluateResponse
    \/ GetAdaptiveDifficulty
    \/ GetUserPerformance

SpecHistory == InitHistory /\ [][NextHistory]_vars

\* a second trainee, who stores rows in the same table
OtherTrainees == {"u2"}

\* the two trainees store in one table, kept to MaxShared rows
SharedInsert == Len(training_sessions) < MaxShared /\ InsertTrainingSession

SharedInsertOther ==
    /\ Len(training_sessions) < MaxShared
    /\ \E user_id \in OtherTrainees : InsertTrainingSessionFor(user_id)

InitShared == Init

NextShared == SharedInsert \/ SharedInsertOther \/ GetAdaptiveDifficulty

SpecShared == InitShared /\ [][NextShared]_vars

\* The caller walks the ladder: it asks get_adaptive_difficulty at the level
\* it holds and holds the answer from then on; a call that raises returns no
\* level, and the caller keeps the one it has
FeedBack ==
    \E user_id \in TraineeIds :
        /\ GetAdaptiveDifficultyOf(user_id, current_level)
        /\ current_level' = IF adaptive'.raised = "none" THEN adaptive'.value
                            ELSE current_level

\* the history grows between the calls, kept to MaxLadder rows
LadderInsert == Len(training_sessions) < MaxLadder /\ InsertTrainingSession

InitLadder ==
    /\ training_sessions = <<>>
    /\ adaptive = NoCall
    /\ current_level \in {difficulty_levels[i] : i \in 1..Len(difficulty_levels)}
    /\ judge = ServiceRaises("Connection error")
    /\ evaluated = NoEvaluation
    /\ InitSynth
    /\ InitScenarios
    /\ InitPerformance
    /\ InitUsers

NextLadder == LadderInsert \/ FeedBack

SpecLadder == InitLadder /\ [][NextLadder]_vars

\* The evaluations of a trainee become the history: the caller files what
\* evaluate_response returned as the scores of a session
\* (session_data['scores'] of insert_training_session), MaxDegraded at most
StoreEvaluation ==
    /\ evaluated.called
    /\ evaluated.raised = "none"
    /\ Len(training_sessions) < MaxDegraded
    /\ \E user_id \in TraineeIds : InsertScores(user_id, evaluated.value)

\* the judge fails on every call, or answers with an evaluation
DegradedJudges ==
    { ServiceRaises("Request timed out"), ServiceRaises("Connection error"),
      ServiceAnswers(FALSE, EmptyDict),
      ServiceAnswers(TRUE, Evaluation(4, 4, 3, 5, "Good rapport, weak close.")) }

InitDegraded ==
    /\ training_sessions = <<>>
    /\ adaptive = NoCall
    /\ current_level = "Easy"
    /\ judge \in DegradedJudges
    /\ evaluated = NoEvaluation
    /\ InitSynth
    /\ InitScenarios
    /\ InitPerformance
    /\ InitUsers

NextDegraded == EvaluateResponse \/ StoreEvaluation \/ GetAdaptiveDifficulty

SpecDegraded == InitDegraded /\ [][NextDegraded]_vars

\* auth.register_user, lines 32-35: the request that looks the email up, and
\* the return on a row found; a request that fails is caught at line 48
RegisterCheck(session) ==
    \E email \in Emails, answered \in BOOLEAN :
        LET existing == UsersWith(users, email)
        IN /\ registering[session].pc # "checked"
           /\ Len(users) < MaxUsers
           /\ registering' =
                [registering EXCEPT ![session] =
                    [pc |-> IF answered /\ existing = <<>> THEN "checked" ELSE "done",
                     email |-> email,
                     existing |-> IF answered THEN existing ELSE <<>>,
                     returned |-> FALSE, inserted |-> FALSE]]
           /\ UNCHANGED <<users, current_level, training_sessions, engine_vars,
                          catalog_vars, perf_vars>>

\* lines 37-47: the request that inserts the row, and return True; a request
\* the store refuses is caught at line 48 and the call returns False
RegisterInsert(session) ==
    \E accepted \in BOOLEAN :
        /\ registering[session].pc = "checked"
        /\ users' = IF accepted
                    THEN Append(users, [email |-> registering[session].email])
                    ELSE users
        /\ registering' =
                [registering EXCEPT ![session].pc = "done",
                                    ![session].returned = accepted,
                                    ![session].inserted = accepted]
        /\ UNCHANGED <<current_level, training_sessions, engine_vars,
                       catalog_vars, perf_vars>>

CheckEmail == \E session \in Sessions : RegisterCheck(session)

InsertUser == \E session \in Sessions : RegisterInsert(session)

InitRegister == Init

NextRegister == CheckEmail \/ InsertUser

SpecRegister == InitRegister /\ [][NextRegister]_vars

\* the catalog: lookups and additions
InitCatalog == Init

NextCatalog == GetScenario \/ AddCustomScenario

SpecCatalog == InitCatalog /\ [][NextCatalog]_vars

\* the performance summary over the sessions save_training_session stored
InitPerf == Init

NextPerf == SaveTrainingSession \/ GetUserPerformance

SpecPerf == InitPerf /\ [][NextPerf]_vars

\* generate_scenario under every behaviour of the completion service, with
\* the personas table loaded or (the load failed) empty
InitSynthesis ==
    /\ training_sessions = <<>>
    /\ adaptive = NoCall
    /\ current_level = "Easy"
    /\ judge = ServiceRaises("Connection error")
    /\ evaluated = NoEvaluation
    /\ personas \in {LoadedPersonas, <<>>}
    /\ generator \in GenerationBehaviours
    /\ generated = NoScenario
    /\ created_ids = <<>>
    /\ InitScenarios
    /\ InitPerformance
    /\ InitUsers

NextSynthesis == GenerateScenario

SpecSynthesis == InitSynthesis /\ [][NextSynthesis]_vars

(***************************************************************************)
(* Properties of get_adaptive_difficulty (specification Spec).             *)
(* The ladder and the thresholds are written out here, independent of the  *)
(* definitions above.                                                      *)
(***************************************************************************)
Ladder == {"Easy", "Medium", "Hard", "Expert"}

LevelUp ==
    [l \in {"Easy", "Medium", "Hard"} |->
        CASE l = "Easy" -> "Medium" [] l = "Medium" -> "Hard" [] l = "Hard" -> "Expert"]

LevelDown ==
    [l \in {"Medium", "Hard", "Expert"} |->
        CASE l = "Medium" -> "Easy" [] l = "Hard" -> "Medium" [] l = "Expert" -> "Hard"]

\* the call computed an avgPerformance: it read a row with scores, and every
\* value it summed was a number
HasAverage ==
    /\ adaptive.called
    /\ \E i \in 1..Len(adaptive.history_data) :
            Truthy(adaptive.history_data[i].scores)
    /\ \A i \in 1..Len(adaptive.history_data) :
            Summable(adaptive.history_data[i].scores)

\* 2 * avgPerformance >= 9, on the fraction the call computed
AverageAtLeastAdvance ==
    LET avg == avg_performance(adaptive.history_data)
    IN 2 * avg.num >= 9 * avg.den

\* avgPerformance < 3, on the fraction the call computed
AverageBelowRegress ==
    LET avg == avg_performance(adaptive.history_data)
    IN avg.num < 3 * avg.den

Returned(v) == adaptive.raised = "none" /\ adaptive.value = v

\* n rows of trainee u, each holding the scores s
Repeated(u, s, n) == [i \in 1..n |-> Row(u, s)]

\* C1: whenever get_adaptive_difficulty is called at Easy, Medium or Hard and
\* the avgPerformance of the rows it read is at least 4.5, it returns the next
\* level up the ladder.
C1_AdvanceOneLevel ==
    (HasAverage /\ adaptive.current_difficulty \in {"Easy", "Medium", "Hard"}
        /\ AverageAtLeastAdvance)
    => Returned(LevelUp[adaptive.current_difficulty])

\* five evaluations of (5,5,5,5) at Medium gave Hard
C1_Witness ==
    /\ adaptive.called
    /\ adaptive.current_difficulty = "Medium"
    /\ adaptive.history_data = Repeated("u1", Scores(5, 5, 5, 5), 5)
    /\ adaptive.value = "Hard"

\* C2: whenever get_adaptive_difficulty is called at Medium, Hard or Expert
\* and the avgPerformance of the rows it read is below 3.0, it returns the next
\* level down the ladder.
C2_RegressOneLevel ==
    (HasAverage /\ adaptive.current_difficulty \in {"Medium", "Hard", "Expert"}
        /\ AverageBelowRegress)
    => Returned(LevelDown[adaptive.current_difficulty])

\* five evaluations of (2,2,2,2) at Hard gave Medium
C2_Witness ==
    /\ adaptive.called
    /\ adaptive.current_difficulty = "Hard"
    /\ adaptive.history_data = Repeated("u1", Scores(2, 2, 2, 2), 5)
    /\ adaptive.value = "Medium"

\* C3: whenever get_adaptive_difficulty is called at a ladder level and the
\* avgPerformance of the rows it read is at least 3.0 and below 4.5, it
\* returns the current level.
C3_HoldBetweenThresholds ==
    (HasAverage /\ adaptive.current_difficulty \in Ladder
        /\ ~AverageBelowRegress /\ ~AverageAtLeastAdvance)
    => Returned(adaptive.current_difficulty)

\* an average of exactly 3.0, (2,2,2,2) and (5,4,4,3), held Hard
C3_Witness ==
    /\ adaptive.called
    /\ adaptive.current_difficulty = "Hard"
    /\ adaptive.history_data =
            <<Row("u1", Scores(2, 2, 2, 2)), Row("u1", Scores(5, 4, 4, 3))>>
    /\ adaptive.value = "Hard"

\* C4: at Expert with avgPerformance at least 4.5 the call returns Expert, at
\* Easy with avgPerformance below 3.0 it returns Easy, and neither raises.
C4_LadderClamped ==
    /\ (HasAverage /\ adaptive.current_difficulty = "Expert" /\ AverageAtLeastAdvance)
            => Returned("Expert")
    /\ (HasAverage /\ adaptive.current_difficulty = "Easy" /\ AverageBelowRegress)
            => Returned("Easy")

\* five evaluations of (5,5,5,5) at Expert gave Expert
C4_Witness ==
    /\ adaptive.called
    /\ adaptive.current_difficulty = "Expert"
    /\ adaptive.history_data = Repeated("u1", Scores(5, 5, 5, 5), 5)
    /\ adaptive.raised = "none"
    /\ adaptive.value = "Expert"

\* C5: when the trainee has no stored session, get_adaptive_difficulty
\* returns the current difficulty it was given, whatever string that is.
C5_EmptyHistoryKeepsDifficulty ==
    (adaptive.called /\ UserRows(training_sessions, adaptive.user_id) = <<>>)
    => Returned(adaptive.current_difficulty)

\* a difficulty that is not on the ladder came back unchanged
C5_Witness ==
    /\ adaptive.called
    /\ UserRows(training_sessions, adaptive.user_id) = <<>>
    /\ adaptive.current_difficulty = "Beginner"
    /\ adaptive.value = "Beginner"

\* the most recent WindowSize rows of an append-ordered history
MostRecent(rows) ==
    SubSeq(rows, Max(1, Len(rows) - WindowSize + 1), Len(rows))

\* C6: the outcome of get_adaptive_difficulty is the decision on the most
\* recent 5 sessions of the trainee's append-ordered history, so no session
\* older than those takes part in it.
C6_DecidedByMostRecent ==
    adaptive.called =>
        LET recent == MostRecent(UserRows(training_sessions, adaptive.user_id))
            decision == get_adaptive_difficulty(recent, adaptive.current_difficulty)
        IN adaptive.raised = decision.raised /\ adaptive.value = decision.value

\* every row the call read holds the four dimensions as numbers
FourDimensions ==
    \A i \in 1..Len(adaptive.history_data) :
        \A k \in Dimensions :
            /\ k \in DOMAIN adaptive.history_data[i].scores
            /\ IsNumber(adaptive.history_data[i].scores[k])

RECURSIVE DimensionTotal(_)
\* the sum, over the rows, of the four dimension scores
DimensionTotal(rows) ==
    IF rows = <<>> THEN 0
    ELSE LET e == Head(rows).scores
         IN e["accuracy"].num + e["application"].num + e["communication"].num
                + e["adaptability"].num + DimensionTotal(Tail(rows))

\* the level for an avgPerformance of total / count
Transition(level, total, count) ==
    IF 2 * total >= 9 * count
    THEN IF level = "Expert" THEN level ELSE LevelUp[level]
    ELSE IF total < 3 * count
    THEN IF level = "Easy" THEN level ELSE LevelDown[level]
    ELSE level

\* C7: avgPerformance is the average of the rows' means of accuracy,
\* application, communication and adaptability alone: whatever else a stored
\* evaluation holds, the call does not fail and decides on that average.
C7_FourDimensionsOnly ==
    (adaptive.called /\ adaptive.history_data # <<>> /\ FourDimensions
        /\ adaptive.current_difficulty \in Ladder)
    => Returned(Transition(adaptive.current_difficulty,
                           DimensionTotal(adaptive.history_data),
                           4 * Len(adaptive.history_data)))

(***************************************************************************)
(* Properties of evaluate_response (specification SpecEval).               *)
(***************************************************************************)
\* the call returned a value to its caller
Evaluated == evaluated.called /\ evaluated.raised = "none"

\* C8: every evaluation evaluate_response returns holds accuracy,
\* application, communication and adaptability, each an integer from 1 to 5.
C8_DimensionsInRange ==
    Evaluated =>
        \A k \in Dimensions :
            /\ k \in DOMAIN evaluated.value
            /\ evaluated.value[k].type = "int"
            /\ evaluated.value[k].num >= 1
            /\ evaluated.value[k].num <= 5

\* the judged object holds k as a number
Judged(k) == k \in DOMAIN judge.object /\ judge.object[k].type = "int"

\* n brought into 1..5
Clamped(n) == IF n < 1 THEN 1 ELSE IF n > 5 THEN 5 ELSE n

\* C9: when the judge's text parses and a dimension is missing or not a
\* number, the returned evaluation holds 3 for that dimension and the clamped
\* judged score for every other dimension.
C9_MissingDimensionIsNeutral ==
    (Evaluated /\ judge.kind = "json" /\ \E k \in Dimensions : ~Judged(k))
    => \A k \in Dimensions :
            /\ k \in DOMAIN evaluated.value
            /\ evaluated.value[k].type = "int"
            /\ evaluated.value[k].num =
                    IF Judged(k) THEN Clamped(judge.object[k].num) ELSE 3

\* C10: when the call of the completion service raises, evaluate_response
\* returns (it does not raise) an evaluation whose four dimensions are 3,
\* whose feedback is a non-empty string holding the service's error message,
\* and whose suggestions are a list.
C10_ServiceFailureIsNeutral ==
    (evaluated.called /\ evaluated.service_called /\ judge.kind = "raises")
    => /\ evaluated.raised = "none"
       /\ \A k \in Dimensions :
            /\ k \in DOMAIN evaluated.value
            /\ evaluated.value[k].type = "int"
            /\ evaluated.value[k].num = 3
       /\ "feedback" \in DOMAIN evaluated.value
       /\ evaluated.value["feedback"].type = "str"
       /\ Len(evaluated.value["feedback"].text) > Len(judge.error)
       /\ SubSeq(evaluated.value["feedback"].text,
                 Len(evaluated.value["feedback"].text) - Len(judge.error) + 1,
                 Len(evaluated.value["feedback"].text)) = judge.error
       /\ "suggestions" \in DOMAIN evaluated.value
       /\ evaluated.value["suggestions"].type = "list"

\* the service timed out and the call returned the neutral evaluation
C10_Witness ==
    /\ evaluated.called
    /\ evaluated.service_called
    /\ judge = ServiceRaises("Request timed out")
    /\ evaluated.raised = "none"
    /\ evaluated.value["accuracy"] = Num(3)
    /\ evaluated.value["feedback"] = Str("Error in evaluation: Request timed out")

(***************************************************************************)
(* Properties of generate_scenario (specification SpecSynthesis).          *)
(***************************************************************************)
\* the requested persona is in the loaded persona set
KnownPersona ==
    \E i \in 1..Len(personas) : personas[i].name = generated.persona_name

\* text begins with prefix
StartsWith(text, prefix) ==
    Len(text) >= Len(prefix) /\ SubSeq(text, 1, Len(prefix)) = prefix

\* the returned value is a scenario whose description carries the error marker
MarkedDegraded ==
    /\ generated.raised = "none"
    /\ "description" \in DOMAIN generated.value
    /\ generated.value["description"].type = "str"
    /\ StartsWith(generated.value["description"].text, "Error generating scenario")

C16_GenerationDegrades ==
    (generated.called /\ KnownPersona /\ generator.kind \in {"raises", "text"})
    => /\ MarkedDegraded
       /\ "persona" \in DOMAIN generated.value
       /\ generated.value["persona"].text = generated.persona_name
       /\ "difficulty" \in DOMAIN generated.value
       /\ generated.value["difficulty"].text = generated.difficulty

\* the service answered with a text that does not parse
C16_Witness ==
    /\ generated.called
    /\ personas # <<>>
    /\ generated.persona_name = "Bargain Hunter"
    /\ generated.difficulty = "Medium"
    /\ generator.kind = "text"
    /\ generated.value["description"].text =
            "Error generating scenario: Expecting value: line 1 column 1 (char 0)"
    /\ generated.value["difficulty"].text = "Medium"

\* the generator's object holds field k with a non-empty text
Filled(k) == k \in DOMAIN generator.object /\ generator.object[k].text # ""

\* C17: when the service's text parses and one of description,
\* customer_dialogue, challenge, learning_outcome is missing or empty,
\* generate_scenario returns a scenario whose description carries the error
\* marker.
C17_MissingFieldDegrades ==
    (generated.called /\ KnownPersona /\ generator.kind = "json"
        /\ \E k \in ScenarioFields : ~Filled(k))
    => MarkedDegraded

\* C18: every scenario generate_scenario returned has an id, and no two of
\* them have the same id.
C18_IdsUnique ==
    /\ \A i \in 1..Len(created_ids) : created_ids[i].type = "int"
    /\ \A i, j \in 1..Len(created_ids) :
            i # j => created_ids[i] # created_ids[j]

(***************************************************************************)
(* Properties of a training turn (specification SpecTurn) and of the      *)
(* history an evaluation leaves (specification SpecEval).                  *)
(***************************************************************************)
\* C11: for a known persona, whatever the completion service does, none of
\* the three calls of a turn raises: generate_scenario, evaluate_response on
\* the scenario it returned, get_adaptive_difficulty.
C11_TurnCompletes ==
    (generated.called /\ KnownPersona)
    => /\ generated.raised = "none"
       /\ (evaluated.called /\ evaluated.scenario = generated.value)
            => evaluated.raised = "none"
       /\ adaptive.called => adaptive.raised = "none"

\* C12: every evaluate_response call whose judge output parsed leaves the
\* training_sessions table one row longer, the new row holding the returned
\* evaluation.
C12_EvaluationAppended ==
    [][(evaluated' # evaluated /\ evaluated'.called /\ judge.kind = "json"
            /\ evaluated'.raised = "none")
        => /\ Len(training_sessions') = Len(training_sessions) + 1
           /\ training_sessions'[Len(training_sessions')].scores = evaluated'.value
      ]_vars

(***************************************************************************)
(* Properties of the scenario catalog (specification SpecCatalog).         *)
(***************************************************************************)
\* the fields get_scenario writes
Labels == {"persona", "difficulty"}

\* C13: when the bucket asked for holds at least one dict, get_scenario
\* returns one of the dicts of that bucket, its other fields as they were,
\* with persona and difficulty equal to the ones asked for.
C13_LookupReturnsTemplate ==
    (lookup.called /\ lookup.scenarios # <<>>)
    => /\ lookup.raised = "none"
       /\ \E i \in 1..Len(lookup.scenarios) : lookup.scenarios[i] = lookup.ref
       /\ DOMAIN lookup.value = DOMAIN lookup.template \cup Labels
       /\ \A k \in DOMAIN lookup.template \ Labels :
                lookup.value[k] = lookup.template[k]
       /\ lookup.value["persona"] = Str(lookup.persona)
       /\ lookup.value["difficulty"] = Str(lookup.difficulty)

\* the second dict of a bucket of two was drawn
C13_Witness ==
    /\ lookup.called
    /\ lookup.persona = "Bargain Hunter"
    /\ lookup.difficulty = "Easy"
    /\ lookup.ref = 2
    /\ lookup.value["challenge"].text = "Value differentiation"
    /\ lookup.value["persona"].text = "Bargain Hunter"

\* C14: for a persona the catalog does not have, or a difficulty the persona
\* has no bucket for, or a bucket without dicts, get_scenario returns (it
\* does not raise) the fallback dict, whose challenge is "General customer
\* service" and whose persona and difficulty are the ones asked for.
C14_FallbackForMissingBucket ==
    (lookup.called /\ lookup.scenarios = <<>>)
    => /\ lookup.raised = "none"
       /\ lookup.ref = 0
       /\ DOMAIN lookup.value = ScenarioFields \cup Labels
       /\ lookup.value["challenge"] = Str("General customer service")
       /\ lookup.value["customer_dialogue"] = Str("Hello, I'm looking for some clothes.")
       /\ lookup.value["persona"] = Str(lookup.persona)
       /\ lookup.value["difficulty"] = Str(lookup.difficulty)

\* a persona the catalog does not have
C14_Witness ==
    /\ lookup.called
    /\ lookup.persona = "Window Shopper"
    /\ lookup.persona \notin DOMAIN scenarios_db
    /\ lookup.difficulty = "Hard"
    /\ lookup.value["challenge"].text = "General customer service"

(***************************************************************************)
(* Properties of the performance summary (specification SpecPerf).         *)
(***************************************************************************)
\* the summary was returned, not the empty dict of a failure
Summarised ==
    /\ performance.called
    /\ performance.caught = "none"
    /\ "improvement_rate" \in DOMAIN performance.value

\* C19: for a history of one, two or three sessions get_user_performance
\* returns the summary with improvement_rate 0, and no division by zero
\* happens on the way.
C19_FewSessionsNoImprovement ==
    (performance.called /\ Len(performance.sessions) \in 1..3)
    => /\ Summarised
       /\ performance.value.improvement_rate = Fraction(0, 1)

\* three sessions summarised
C19_Witness ==
    /\ Summarised
    /\ Len(performance.sessions) = 3
    /\ performance.value.total_sessions = 3
    /\ performance.value.improvement_rate = Fraction(0, 1)

\* the sum of the total scores of sessions from..to of the summarised history
RECURSIVE TotalOver(_, _)
TotalOver(from, to) ==
    IF from > to THEN Fraction(0, 1)
    ELSE Plus(performance.sessions[from].total_score, TotalOver(from + 1, to))

\* count // 4 of the summarised history
QuarterSize == Len(performance.sessions) \div 4

\* the sums of the first and of the last quarter; their means are these
\* divided by QuarterSize
EarlySum == TotalOver(1, QuarterSize)
RecentSum ==
    TotalOver(Len(performance.sessions) - QuarterSize + 1, Len(performance.sessions))

\* C20: for a history of count >= 4 sessions whose first count // 4 sessions
\* do not all have total 0, improvement_rate = (recentAvg - earlyAvg) /
\* earlyAvg * 100, the means being those of the first and of the last
\* count // 4 sessions; stated without the divisions:
\* improvement_rate * earlySum = (recentSum - earlySum) * 100.
C20_ImprovementRateFormula ==
    (performance.called /\ Len(performance.sessions) >= 4 /\ EarlySum.num # 0)
    => /\ Summarised
       /\ performance.value.improvement_rate.num * EarlySum.num * RecentSum.den
            = (RecentSum.num * EarlySum.den - EarlySum.num * RecentSum.den) * 100
                * performance.value.improvement_rate.den

\* eight sessions, the first two of total 2, the last two of total 4: +100
C20_Witness ==
    /\ Summarised
    /\ Len(performance.sessions) = 8
    /\ \A i \in {1, 2} : performance.sessions[i].total_score = Fraction(2, 1)
    /\ \A i \in {7, 8} : performance.sessions[i].total_score = Fraction(4, 1)
    /\ performance.value.improvement_rate = Fraction(100, 1)

\* C21: for a history of at least 4 sessions whose first count // 4 sessions
\* all have total 0, get_user_performance still returns the whole summary
\* (count, mean, best, means by category), with improvement_rate 0.
C21_ZeroEarlyAverageKeepsSummary ==
    (performance.called /\ Len(performance.sessions) >= 4 /\ EarlySum.num = 0)
    => /\ Summarised
       /\ performance.value.improvement_rate = Fraction(0, 1)
       /\ performance.value.total_sessions = Len(performance.sessions)
       /\ DOMAIN performance.value.scores_by_category = Dimensions

(***************************************************************************)
(* Properties of histories whose score dicts lack keys (specification      *)
(* SpecSparse).                                                            *)
(***************************************************************************)
\* the dict of scores of session i of the summarised history
SummarisedScores(i) == loads(performance.sessions[i].scores).value

\* the sessions of the summarised history that have the category
Having(category) ==
    {i \in 1..Len(performance.sessions) : category \in DOMAIN SummarisedScores(i)}

RECURSIVE CategoryTotal(_, _)
CategoryTotal(category, sessions) ==
    IF sessions = {} THEN 0
    ELSE LET i == CHOOSE i \in sessions : TRUE
         IN SummarisedScores(i)[category].num
                + CategoryTotal(category, sessions \ {i})

\* the rows the call read with the rows of an empty dict taken out
WithoutEmpty(rows) == SelectSeq(rows, LAMBDA r : r.scores # EmptyDict)

\* C22: score dicts that lack keys make neither reader raise.  In the summary
\* of get_user_performance over rows of save_training_session a dimension has
\* a mean exactly when some session has it, and the mean is taken over those
\* sessions only.  get_adaptive_difficulty over rows of
\* insert_training_session, asked at a ladder level, returns what it returns
\* with the rows of an empty dict taken out.
C22_MissingKeysTolerated ==
    /\ (performance.called /\ performance.sessions # <<>>
            /\ \A i \in 1..Len(performance.sessions) :
                    IsText(performance.sessions[i].scores))
        => /\ Summarised
           /\ \A category \in Dimensions :
                /\ category \in DOMAIN performance.value.scores_by_category
                        <=> Having(category) # {}
                /\ Having(category) # {}
                    => performance.value.scores_by_category[category].num
                            * Cardinality(Having(category))
                        = CategoryTotal(category, Having(category))
                            * performance.value.scores_by_category[category].den
    /\ (adaptive.called /\ adaptive.current_difficulty \in Ladder
            /\ \A i \in 1..Len(adaptive.history_data) :
                    ~IsText(adaptive.history_data[i].scores))
        => /\ adaptive.raised = "none"
           /\ adaptive.value
                = get_adaptive_difficulty(WithoutEmpty(adaptive.history_data),
                                          adaptive.current_difficulty).value

\* two sessions summarised, one of them without accuracy: the mean of
\* accuracy is that of the other alone, the mean of application that of both
C22_Witness ==
    /\ Summarised
    /\ Len(performance.sessions) = 2
    /\ Cardinality(Having("accuracy")) = 1
    /\ Cardinality(Having("application")) = 2
    /\ performance.value.scores_by_category["accuracy"] = Fraction(5, 1)
    /\ performance.value.scores_by_category["application"] = Fraction(9, 2)

(***************************************************************************)
(* Scenarios once returned (specifications SpecCatalog, SpecSynthesis).    *)
(***************************************************************************)
\* C23: the dict the last get_scenario call returned from the catalog is
\* changed by no later get_scenario or add_custom_scenario call: every field
\* of it, persona and difficulty among them, stays as it was returned.
C23_ReturnedScenarioUnchanged ==
    [][(lookup.called /\ lookup.ref # 0)
        => heap'[lookup.ref] = heap[lookup.ref]]_vars

\* C24: every scenario get_scenario or generate_scenario returns has a
\* persona that is not empty and a difficulty that is one of Easy, Medium,
\* Hard, Expert, whatever strings the call was given.
C24_LabelsValid ==
    /\ (lookup.called /\ lookup.raised = "none")
        => /\ Labels \subseteq DOMAIN lookup.value
           /\ lookup.value["persona"].text # ""
           /\ lookup.value["difficulty"].text \in Ladder
    /\ (generated.called /\ generated.raised = "none"
            /\ generated.value # PersonaNotFound)
        => /\ Labels \subseteq DOMAIN generated.value
           /\ generated.value["persona"].text # ""
           /\ generated.value["difficulty"].text \in Ladder

(***************************************************************************)
(* Properties of the stored history (specification SpecHistory).           *)
(***************************************************************************)
\* the step is a get_adaptive_difficulty or a get_user_performance call
ReadStep ==
    \/ adaptive'.called /\ adaptive' # adaptive
    \/ performance'.called /\ performance' # performance

\* C25: no step of evaluate_response, get_adaptive_difficulty,
\* get_user_performance, save_training_session or insert_training_session
\* removes, changes or reorders a stored row: the table before the step is
\* the beginning of the table after it, and the two reads leave the table
\* as it is.
C25_HistoryAppendOnly ==
    [][/\ Len(training_sessions') >= Len(training_sessions)
       /\ SubSeq(training_sessions', 1, Len(training_sessions)) = training_sessions
       /\ ReadStep => training_sessions' = training_sessions]_vars

\* a row of each writer stored, then evaluated and both reads made
C25_Witness ==
    /\ Len(training_sessions) = 2
    /\ ~IsText(training_sessions[1].scores)
    /\ IsText(training_sessions[2].scores)
    /\ evaluated.called
    /\ evaluated.service_called
    /\ adaptive.called
    /\ performance.called

(***************************************************************************)
(* Properties of a table two trainees store in (specification SpecShared). *)
(***************************************************************************)
\* the rows of the table that belong to the trainee
OwnRows(table, user_id) == SelectSeq(table, LAMBDA r : r.user_id = user_id)

\* what get_adaptive_difficulty answers on the table
DifficultyOn(table, user_id, current_difficulty) ==
    get_adaptive_difficulty(Limit(UserRows(table, user_id)), current_difficulty)

\* C26: the outcome of get_adaptive_difficulty for a trainee is the outcome
\* on the table with the rows of every other trainee taken out, so it is the
\* same for all tables that hold the same rows of the trainee; and the rows
\* the call reads are rows of the trainee.
C26_TraineesIndependent ==
    adaptive.called
    => /\ \A i \in 1..Len(adaptive.history_data) :
                adaptive.history_data[i].user_id = adaptive.user_id
       /\ [raised |-> adaptive.raised, value |-> adaptive.value]
            = DifficultyOn(OwnRows(training_sessions, adaptive.user_id),
                           adaptive.user_id, adaptive.current_difficulty)

\* the other trainee's low scores stand before and after the trainee's one
\* row of fives: the trainee still advances
C26_Witness ==
    /\ adaptive.called
    /\ adaptive.user_id = "u1"
    /\ training_sessions = <<Row("u2", Scores(2, 2, 2, 2)), Row("u1", Scores(5, 5, 5, 5)),
                             Row("u2", Scores(2, 2, 2, 2))>>
    /\ adaptive.current_difficulty = "Easy"
    /\ adaptive.value = "Medium"

(***************************************************************************)
(* Properties of the ladder walked call after call (specification          *)
(* SpecLadder).                                                            *)
(***************************************************************************)
\* the position of a level on the ladder, -1 off it
Position(difficulty) == Index(difficulty_levels, difficulty)

\* C27: the level the caller holds, fed back call after call while the
\* history changes, stays one of Easy, Medium, Hard, Expert, and no step
\* moves it by more than one position of the ladder.
C27_OneStepOnLadder ==
    [][/\ current_level' \in Ladder
       /\ Abs(Position(current_level') - Position(current_level)) <= 1]_vars

\* a call at Hard answered Expert, and one at Medium before the history
\* changed: the caller holds Expert
C27_Witness ==
    /\ adaptive.called
    /\ adaptive.raised = "none"
    /\ adaptive.current_difficulty = "Hard"
    /\ adaptive.value = "Expert"
    /\ current_level = "Expert"
    /\ Len(training_sessions) >= 2

(***************************************************************************)
(* Properties of a history of stored evaluations (specification            *)
(* SpecDegraded).                                                          *)
(***************************************************************************)
\* the evaluation lines 118-126 return when the judge failed
Degraded(scores) ==
    \E j \in DegradedJudges : scores = FallbackEvaluation(j.error)

\* C28: when every row of the window get_adaptive_difficulty reads is a
\* degraded evaluation, the call at a ladder level returns that level, the
\* average it decided on being 3.0.
C28_DegradedWindowHolds ==
    (/\ adaptive.called
     /\ adaptive.history_data # <<>>
     /\ \A i \in 1..Len(adaptive.history_data) :
            Degraded(adaptive.history_data[i].scores)
     /\ adaptive.current_difficulty \in Ladder)
    => /\ adaptive.raised = "none"
       /\ adaptive.value = adaptive.current_difficulty
       /\ avg_performance(adaptive.history_data) = Fraction(3, 1)

(***************************************************************************)
(* Properties of register_user called by sessions at the same time         *)
(* (specification SpecRegister).                                           *)
(***************************************************************************)
\* C29: the users table never holds two rows of one email, and a call whose
\* lookup found the email registered returns False and inserts no row.
C29_EmailsUnique ==
    /\ \A i, j \in 1..Len(users) : users[i].email = users[j].email => i = j
    /\ \A session \in Sessions :
            (registering[session].pc = "done" /\ registering[session].existing # <<>>)
            => ~registering[session].returned /\ ~registering[session].inserted

====
